---- MODULE Spec2Model ----
(***************************************************************************)
(* A model of the moneybags program (src/src/lib.rs, src/src/main.rs).     *)
(*                                                                         *)
(* One run of the program: Moneybags::run opens the CSV file, from_reader  *)
(* loads every row into the BTreeMap<Id, Record>, process_records walks    *)
(* the map in key order and folds each record into the BTreeMap of         *)
(* clients, and run serializes the resulting Vec<Client>; main turns the   *)
(* Result into the exit status.                                            *)
(*                                                                         *)
(* Decimal amounts are modelled as integers (the mantissa at one fixed     *)
(* scale); the bounds keep them far from rust_decimal's 96-bit range.      *)
(***************************************************************************)
EXTENDS Integers, Sequences, FiniteSets, TLC

VARIABLES
    readable,   \* whether File::open succeeds on csv_file
    csv_file,   \* the rows of the file, in input order
    pc,         \* where the run is: from_file, process_records, exited
    records,    \* Records.0 : BTreeMap<Id, Record>
    rowOf,      \* ghost: the input row each key of records was last inserted from
    clients,    \* process_records' BTreeMap<u64, Client>
    cursor,     \* records already taken from records.0.values()
    log,        \* ghost: one entry per record process_records has taken
    error,      \* the Err the run ended with, or NoError
    output,     \* the rows serialized to the writer
    exit_code   \* the status main exits with, or Running

vars == <<readable, csv_file, pc, records, rowOf, clients, cursor, log, error,
          output, exit_code>>

----------------------------------------------------------------------------
(* Bounds of the model *)

MaxRows == 3

MaxAmount == 1

MaxScenarioAmount == 3

\* The amounts of test::process_chargeback and test::process_resolve, scale 4.
TestDeposit == 2009999

TestWithdrawal == 1005001

ClientIds == {1, 2}

TxIds == {1, 2}

Amounts == 0..MaxAmount

----------------------------------------------------------------------------
(* Input rows *)

RecordType == {"deposit", "withdrawal", "dispute", "resolve", "chargeback"}

Record == [record_type : RecordType, client : ClientIds, tx : TxIds, amount : Amounts]

\* A row that csv's deserialize yields as Err (unknown type, bad number, ...).
MalformedRow == [record_type |-> "malformed", client |-> 0, tx |-> 0, amount |-> 0]

Deserializes(row) == row.record_type \in RecordType

Rec(t, c, x, a) == [record_type |-> t, client |-> c, tx |-> x, amount |-> a]

----------------------------------------------------------------------------
(* Id and its derived Ord: variants in declaration order, then the payload *)

Tx(n) == <<0, n>>

Fake(n) == <<1, n>>

IsFake(id) == id[1] = 1

\* Faulty variant: the payload is compared before the variant.
IdLessByPayload(a, b) == a[2] < b[2] \/ (a[2] = b[2] /\ a[1] < b[1])

IdLess(a, b) == a[1] < b[1] \/ (a[1] = b[1] /\ a[2] < b[2])

RECURSIVE SortedKeys(_)
SortedKeys(S) ==
    IF S = {} THEN <<>>
    ELSE LET least == CHOOSE a \in S : \A b \in S \ {a} : IdLess(a, b)
         IN  <<least>> \o SortedKeys(S \ {least})

\* Faulty variant: every row is filed under its own tx field, no synthetic ids.
IdOfRealTx(record, next_fake) == Tx(record.tx)

\* The synthetic or real key from_reader files a record under.
IdOf(record, next_fake) ==
    IF record.record_type \in {"deposit", "withdrawal"}
    THEN Tx(record.tx)
    ELSE Fake(next_fake)

\* BTreeMap::insert: a new key is added, an existing key's value is replaced.
MapInsert(m, k, v) == [x \in (DOMAIN m) \cup {k} |-> IF x = k THEN v ELSE m[x]]

----------------------------------------------------------------------------
(* Client *)

\* Faulty variant: Client::default(), the id is left at zero.
NewClientDefault(id) == [id |-> 0, available |-> 0, held |-> 0, total |-> 0, locked |-> FALSE]

NewClient(id) == [id |-> id, available |-> 0, held |-> 0, total |-> 0, locked |-> FALSE]

NoError == "none"

ErrOpen == "Unable to open file"

ErrRow == "CSV deserialize error"

ErrFunds == "Withdrawal failed. Available funds insufficient."

ErrDisputed == "Disputed record tx could not be found"

ErrResolved == "Resolved record tx could not be found"

ErrChargeback == "Chargeback record tx could not be found"

Ok(client) == [ok |-> TRUE, client |-> client, err |-> NoError]

Err(client, msg) == [ok |-> FALSE, client |-> client, err |-> msg]

DepositArm(client, record) ==
    Ok([client EXCEPT !.available = @ + record.amount,
                      !.total = @ + record.amount])

\* Faulty variant: the withdrawal is applied without the funds check.
WithdrawalArmUnchecked(client, record) ==
    Ok([client EXCEPT !.available = @ - record.amount,
                      !.total = @ - record.amount])

WithdrawalArm(client, record) ==
    IF client.available >= record.amount
    THEN Ok([client EXCEPT !.available = @ - record.amount,
                           !.total = @ - record.amount])
    ELSE Err(client, ErrFunds)

\* Faulty variant: the hold is taken from the Dispute row's own amount field.
DisputeArmOwnAmount(client, record, recs) ==
    IF Tx(record.tx) \in DOMAIN recs
    THEN Ok([client EXCEPT !.available = @ - record.amount,
                           !.held = @ + record.amount])
    ELSE Err(client, ErrDisputed)

DisputeArm(client, record, recs) ==
    IF Tx(record.tx) \in DOMAIN recs
    THEN LET disputed_record == recs[Tx(record.tx)]
         IN  Ok([client EXCEPT !.available = @ - disputed_record.amount,
                               !.held = @ + disputed_record.amount])
    ELSE Err(client, ErrDisputed)

\* Faulty variant: held is floored at zero when the release exceeds it.
ResolveArmClamped(client, record, recs) ==
    IF Tx(record.tx) \in DOMAIN recs
    THEN LET resolved_record == recs[Tx(record.tx)]
             left == client.held - resolved_record.amount
         IN  Ok([client EXCEPT !.available = @ + resolved_record.amount,
                               !.held = IF left < 0 THEN 0 ELSE left])
    ELSE Err(client, ErrResolved)

\* Faulty variant: a Resolve also lifts the lock.
ResolveArmUnlocks(client, record, recs) ==
    IF Tx(record.tx) \in DOMAIN recs
    THEN LET resolved_record == recs[Tx(record.tx)]
         IN  Ok([client EXCEPT !.available = @ + resolved_record.amount,
                               !.held = @ - resolved_record.amount,
                               !.locked = FALSE])
    ELSE Err(client, ErrResolved)

\* Faulty variant: the release is taken from the Resolve row's own amount field.
ResolveArmOwnAmount(client, record, recs) ==
    IF Tx(record.tx) \in DOMAIN recs
    THEN Ok([client EXCEPT !.available = @ + record.amount,
                           !.held = @ - record.amount])
    ELSE Err(client, ErrResolved)

ResolveArm(client, record, recs) ==
    IF Tx(record.tx) \in DOMAIN recs
    THEN LET resolved_record == recs[Tx(record.tx)]
         IN  Ok([client EXCEPT !.available = @ + resolved_record.amount,
                               !.held = @ - resolved_record.amount])
    ELSE Err(client, ErrResolved)

\* Faulty variant: the reversal is taken from total instead of available.
ChargebackArmFromTotal(client, record, recs) ==
    IF Tx(record.tx) \in DOMAIN recs
    THEN LET chargeback_record == recs[Tx(record.tx)]
         IN  Ok([client EXCEPT !.total = @ - chargeback_record.amount,
                               !.held = @ - chargeback_record.amount,
                               !.locked = TRUE])
    ELSE Err(client, ErrChargeback)

ChargebackArm(client, record, recs) ==
    IF Tx(record.tx) \in DOMAIN recs
    THEN LET chargeback_record == recs[Tx(record.tx)]
         IN  Ok([client EXCEPT !.available = @ - chargeback_record.amount,
                               !.held = @ - chargeback_record.amount,
                               !.locked = TRUE])
    ELSE Err(client, ErrChargeback)

\* The match on record.record_type in process_records.
Transition(client, record, recs) ==
    CASE record.record_type = "deposit"    -> DepositArm(client, record)
      [] record.record_type = "withdrawal" -> WithdrawalArm(client, record)
      [] record.record_type = "dispute"    -> DisputeArm(client, record, recs)
      [] record.record_type = "resolve"    -> ResolveArm(client, record, recs)
      [] record.record_type = "chargeback" -> ChargebackArm(client, record, recs)

\* clients.entry(id).or_insert_with(|| Client::new(id))
OrInsert(table, id) ==
    IF id \in DOMAIN table THEN table ELSE MapInsert(table, id, NewClient(id))

\* clients.into_iter().map(|(_, client)| client).collect(): ascending client id.
RECURSIVE Collect(_)
Collect(table) ==
    IF DOMAIN table = {} THEN <<>>
    ELSE LET least == CHOOSE a \in DOMAIN table : \A b \in DOMAIN table : a <= b
         IN  <<table[least]>> \o Collect([x \in (DOMAIN table) \ {least} |-> table[x]])

----------------------------------------------------------------------------
(* The run *)

Running == -1

EmptyMap == [x \in {} |-> 0]

Rows == Record \cup {MalformedRow}

Files == UNION {[1..k -> Rows] : k \in 0..MaxRows}

Start ==
    /\ pc = "from_file"
    /\ records = EmptyMap
    /\ rowOf = EmptyMap
    /\ clients = EmptyMap
    /\ cursor = 0
    /\ log = <<>>
    /\ error = NoError
    /\ output = <<>>
    /\ exit_code = Running

Init ==
    /\ \/ readable = FALSE /\ csv_file = <<>>
       \/ readable = TRUE /\ csv_file \in Files
    /\ Start

\* run returns Err(e); main prints it and exits with status 1.
Abort(msg) ==
    /\ pc' = "exited"
    /\ error' = msg
    /\ exit_code' = 1

\* Faulty variant: a key already in the map keeps its first record.
ReadRowKeepFirst(acc, row, n) ==
    IF ~Deserializes(row)
    THEN [acc EXCEPT !.ok = FALSE]
    ELSE LET id == IdOf(row, acc.fake_id + 1)
             seen == id \in DOMAIN acc.records
         IN  [ok |-> TRUE,
              records |-> IF seen THEN acc.records ELSE MapInsert(acc.records, id, row),
              fake_id |-> IF IsFake(id) THEN acc.fake_id + 1 ELSE acc.fake_id,
              rowOf |-> IF seen THEN acc.rowOf ELSE MapInsert(acc.rowOf, id, n)]

\* One iteration of from_reader's loop, on row n of the file: acc is the
\* loop's state (the map, fake_id, and the ghost rowOf), ok = FALSE once a
\* row failed to deserialize and `result?` returned.
ReadRow(acc, row, n) ==
    IF ~Deserializes(row)
    THEN [acc EXCEPT !.ok = FALSE]
    ELSE LET id == IdOf(row, acc.fake_id + 1)
         IN  [ok |-> TRUE,
              records |-> MapInsert(acc.records, id, row),
              fake_id |-> IF IsFake(id) THEN acc.fake_id + 1 ELSE acc.fake_id,
              rowOf |-> MapInsert(acc.rowOf, id, n)]

\* Records::from_reader: the loop over csv_reader.deserialize(), from row n on.
RECURSIVE FromReader(_, _, _)
FromReader(rows, n, acc) ==
    IF n > Len(rows) \/ ~acc.ok
    THEN acc
    ELSE FromReader(rows, n + 1, ReadRow(acc, rows[n], n))

\* Records::from_file, as run calls it: File::open, then from_reader.
FromFile ==
    /\ pc = "from_file"
    /\ LET read == FromReader(csv_file, 1,
                       [ok |-> TRUE, records |-> EmptyMap, fake_id |-> 0,
                        rowOf |-> EmptyMap])
       IN  IF ~readable
           THEN Abort(ErrOpen) /\ UNCHANGED <<records, rowOf>>
           ELSE IF ~read.ok
           THEN Abort(ErrRow) /\ UNCHANGED <<records, rowOf>>
           ELSE /\ records' = read.records
                /\ rowOf' = read.rowOf
                /\ pc' = "process_records"
                /\ UNCHANGED <<error, exit_code>>
    /\ UNCHANGED <<readable, csv_file, clients, cursor, log, output>>

\* Faulty variant: the stored account is changed in place and the arm's check comes
\* after its arithmetic, so a failing record leaves its subtraction behind.
StepInPlace(table, record, recs) ==
    LET entered == OrInsert(table, record.client)
        res == Transition(entered[record.client], record, recs)
    IN  IF res.ok
        THEN [table |-> MapInsert(entered, res.client.id, res.client), err |-> res.err]
        ELSE [table |-> MapInsert(entered, record.client,
                            [entered[record.client] EXCEPT
                                 !.available = @ - record.amount,
                                 !.total = @ - record.amount]),
              err |-> res.err]

\* The body of process_records' loop on one record: the account is copied out
\* of the table (created first when missing), the match arm works on the copy,
\* and clients.insert stores the copy unless the arm returned early.
Step(table, record, recs) ==
    LET entered == OrInsert(table, record.client)
        res == Transition(entered[record.client], record, recs)
    IN  [table |-> IF res.ok
                   THEN MapInsert(entered, res.client.id, res.client)
                   ELSE entered,
         err |-> res.err]

\* One iteration of process_records' loop over records.0.values().
ProcessRecord ==
    /\ pc = "process_records"
    /\ cursor < Cardinality(DOMAIN records)
    /\ LET id == SortedKeys(DOMAIN records)[cursor + 1]
           done == Step(clients, records[id], records)
       IN  /\ clients' = done.table
           /\ cursor' = cursor + 1
           /\ log' = Append(log, [id |-> id, before |-> clients, err |-> done.err])
           /\ IF done.err = NoError
              THEN UNCHANGED <<pc, error, exit_code>>
              ELSE Abort(done.err)
    /\ UNCHANGED <<readable, csv_file, records, rowOf, output>>

\* The loop is over: process_records returns the collected clients, run
\* serializes each of them and returns Ok(()), main exits with status 0.
WriteSummary ==
    /\ pc = "process_records"
    /\ cursor = Cardinality(DOMAIN records)
    /\ output' = Collect(clients)
    /\ pc' = "exited"
    /\ exit_code' = 0
    /\ UNCHANGED <<readable, csv_file, records, rowOf, clients, cursor, log, error>>

Next ==
    \/ FromFile
    \/ ProcessRecord
    \/ WriteSummary

Spec == Init /\ [][Next]_vars

----------------------------------------------------------------------------
(* The deposit, withdrawal, dispute, chargeback sequence of                *)
(* test::process_chargeback, for one client and amounts d and w.           *)

ChargebackFile(c, d, w) ==
    << Rec("deposit", c, 1, d),
       Rec("withdrawal", c, 2, w),
       Rec("dispute", c, 2, 0),
       Rec("chargeback", c, 2, 0) >>

ScenarioAmounts ==
    ((0..MaxScenarioAmount) \X (0..MaxScenarioAmount))
        \cup {<<TestDeposit, TestWithdrawal>>}

InitChargebackScenario ==
    /\ \/ readable = FALSE /\ csv_file = <<>>
       \/ /\ readable = TRUE
          /\ \E c \in ClientIds, dw \in ScenarioAmounts :
                 csv_file = ChargebackFile(c, dw[1], dw[2])
    /\ Start

SpecChargebackScenario == InitChargebackScenario /\ [][Next]_vars

----------------------------------------------------------------------------
(* Files that keep the input contract the source documents: transaction    *)
(* ids are unique among Deposit and Withdrawal rows, and Dispute, Resolve  *)
(* and Chargeback rows leave the amount column blank (parsed as zero).     *)
(* Every row of such a file deserializes.                                  *)

IsMovement(row) == row.record_type \in {"deposit", "withdrawal"}

ContractRows ==
    {row \in Record : row.record_type \in {"dispute", "resolve", "chargeback"}
                          => row.amount = 0}

UniqueTx(f) ==
    \A i \in DOMAIN f : \A j \in DOMAIN f :
        (i < j /\ IsMovement(f[i]) /\ IsMovement(f[j])) => f[i].tx # f[j].tx

ContractFiles ==
    UNION {{f \in [1..k -> ContractRows] : UniqueTx(f)} : k \in 0..MaxRows}

InitContract ==
    /\ \/ readable = FALSE /\ csv_file = <<>>
       \/ readable = TRUE /\ csv_file \in ContractFiles
    /\ Start

SpecContract == InitContract /\ [][Next]_vars

----------------------------------------------------------------------------
(* Files whose rows all name one transaction id: Deposit and Withdrawal    *)
(* rows reuse it at will, Dispute, Resolve and Chargeback rows refer to it. *)

OneTxRows(t) == {row \in ContractRows : row.tx = t}

InitOneTx ==
    /\ \/ readable = FALSE /\ csv_file = <<>>
       \/ /\ readable = TRUE
          /\ \E k \in 0..MaxRows, t \in TxIds : csv_file \in [1..k -> OneTxRows(t)]
    /\ Start

SpecOneTx == InitOneTx /\ [][Next]_vars

----------------------------------------------------------------------------
(* Files of Deposit and Withdrawal rows only, numbered as they come: row j *)
(* carries tx id j.                                                        *)

MovementRow(j) ==
    [record_type : {"deposit", "withdrawal"}, client : ClientIds, tx : {j},
     amount : 0..MaxScenarioAmount]

\* The file whose row j is g[j] with tx id j.
MovementFile(g) == [j \in DOMAIN g |-> [g[j] EXCEPT !.tx = j]]

InitMovements ==
    /\ \/ readable = FALSE /\ csv_file = <<>>
       \/ /\ readable = TRUE
          /\ \E k \in 0..MaxRows :
                 \E g \in [1..k -> MovementRow(1)] : csv_file = MovementFile(g)
    /\ Start

SpecMovements == InitMovements /\ [][Next]_vars

----------------------------------------------------------------------------
(* The run as a function of the file *)

\* process_records' loop from the n-th key on; it stops at the first error.
RECURSIVE Fold(_, _, _, _)
Fold(table, keys, n, recs) ==
    IF n > Len(keys)
    THEN [table |-> table, err |-> NoError]
    ELSE LET done == Step(table, recs[keys[n]], recs)
         IN  IF done.err # NoError THEN done ELSE Fold(done.table, keys, n + 1, recs)

\* What run leaves behind for a readable file: the error and the rows written.
ResultOf(f) ==
    LET read == FromReader(f, 1, [ok |-> TRUE, records |-> EmptyMap, fake_id |-> 0,
                                  rowOf |-> EmptyMap])
        end == Fold(EmptyMap, SortedKeys(DOMAIN read.records), 1, read.records)
    IN  IF ~read.ok THEN [error |-> ErrRow, output |-> <<>>]
        ELSE IF end.err # NoError THEN [error |-> end.err, output |-> <<>>]
        ELSE [error |-> NoError, output |-> Collect(end.table)]

IsReference(row) == ~IsMovement(row)

\* The file with its Deposit and Withdrawal rows moved in front of all other
\* rows, each group in its input order.
MovementsFirst(f) == SelectSeq(f, IsMovement) \o SelectSeq(f, IsReference)

----------------------------------------------------------------------------
(* Reading the log *)

Steps == 1..Len(log)

\* The record step i took from the map.
StepRecord(i) == records[log[i].id]

\* The step's match arm returned no error.
StepOk(i) == log[i].err = NoError

\* The table before step i, and the table after it: what the next step
\* started from or, for the last step, the table as it is.
Before(i) == log[i].before

After(i) == IF i < Len(log) THEN log[i + 1].before ELSE clients

DisputeKinds == {"dispute", "resolve", "chargeback"}

\* The client a step is for.
Owner(i) == StepRecord(i).client

\* The account a step starts from: the stored one, or the one created for it.
Pre(i) == OrInsert(Before(i), Owner(i))[Owner(i)]

\* The account the table holds after the step.
Post(i) == After(i)[Owner(i)]

Referenced(i) == Tx(StepRecord(i).tx)

HasReferenced(i) == Referenced(i) \in DOMAIN records

RefAmt(i) == records[Referenced(i)].amount

\* A Deposit or Withdrawal row with tx id x stands before row n of the file.
AppearsBefore(x, n) ==
    \E j \in 1..(n - 1) :
        /\ csv_file[j].record_type \in {"deposit", "withdrawal"}
        /\ csv_file[j].tx = x

----------------------------------------------------------------------------
(* Claims *)

\* C1: for every account, after every applied event, total = available + held.
C1_TotalIsAvailablePlusHeld ==
    \A c \in DOMAIN clients :
        clients[c].total = clients[c].available + clients[c].held

\* C2: a per-event failure (insufficient funds, unknown referenced tx) is
\* recoverable: the failed event changes no balance, the run goes on with the
\* next event and ends successfully.
C2_PerEventFailureIsRecoverable ==
    \A i \in Steps :
        ~StepOk(i) =>
            /\ After(i) = OrInsert(Before(i), Owner(i))
            /\ error = NoError
            /\ exit_code # 1

\* C3: events are applied in strict input order: a row at an earlier position
\* of the file is applied before a row at a later position.
C3_AppliedInInputOrder ==
    \A a \in Steps : \A b \in Steps :
        a < b => rowOf[log[a].id] < rowOf[log[b].id]

\* C4: a Dispute, Resolve or Chargeback whose tx id has not appeared in an
\* earlier Deposit or Withdrawal row fails as an unknown transaction, also when
\* such a row appears later in the file.
C4_NotYetSeenIsUnknown ==
    \A i \in Steps :
        (/\ StepRecord(i).record_type \in DisputeKinds
         /\ ~AppearsBefore(StepRecord(i).tx, rowOf[log[i].id]))
            => (~StepOk(i) /\ log[i].err \in {ErrDisputed, ErrResolved, ErrChargeback})

\* C5: once an account is locked, every later event for that client is
\* rejected with AccountLocked and leaves available, held and total unchanged.
C5_LockedAccountRejects ==
    \A i \in Steps :
        Pre(i).locked =>
            /\ ~StepOk(i)
            /\ log[i].err = "AccountLocked"
            /\ Post(i).available = Pre(i).available
            /\ Post(i).held = Pre(i).held
            /\ Post(i).total = Pre(i).total

\* C6: a Chargeback whose referenced tx exists and belongs to the event's
\* client decreases total and held by the referenced amount, sets locked and
\* leaves available unchanged.
C6_ChargebackEffect ==
    \A i \in Steps :
        (/\ StepRecord(i).record_type = "chargeback"
         /\ HasReferenced(i)
         /\ records[Referenced(i)].client = Owner(i))
            => /\ StepOk(i)
               /\ Post(i).total = Pre(i).total - RefAmt(i)
               /\ Post(i).held = Pre(i).held - RefAmt(i)
               /\ Post(i).locked
               /\ Post(i).available = Pre(i).available

C8_DisputeEffect ==
    \A i \in Steps :
        (StepRecord(i).record_type = "dispute" /\ HasReferenced(i))
            => /\ StepOk(i)
               /\ Post(i).available = Pre(i).available - RefAmt(i)
               /\ Post(i).held = Pre(i).held + RefAmt(i)
               /\ Post(i).total = Pre(i).total
               /\ Post(i).locked = Pre(i).locked

\* C8 witness: a Dispute was applied whose own amount differs from the
\* referenced one.
C8_Witness ==
    \E i \in Steps :
        /\ StepRecord(i).record_type = "dispute"
        /\ StepOk(i)
        /\ RefAmt(i) > 0
        /\ StepRecord(i).amount # RefAmt(i)
        /\ Post(i).held = Pre(i).held + RefAmt(i)

\* C9: a Dispute of tx t followed by a Resolve of the same t for the same
\* client returns the account to its state before the Dispute.
C9_DisputeResolveRoundTrip ==
    \A i \in Steps :
        (/\ i + 1 \in Steps
         /\ StepRecord(i).record_type = "dispute"
         /\ StepRecord(i + 1).record_type = "resolve"
         /\ StepRecord(i + 1).tx = StepRecord(i).tx
         /\ Owner(i + 1) = Owner(i))
            => (StepOk(i + 1) /\ Post(i + 1) = Pre(i))

\* C9 witness: such a pair was applied to an account with money in it, and
\* the Dispute did move the amount.
C9_Witness ==
    \E i \in Steps :
        /\ i + 1 \in Steps
        /\ StepRecord(i).record_type = "dispute"
        /\ StepRecord(i + 1).record_type = "resolve"
        /\ StepRecord(i + 1).tx = StepRecord(i).tx
        /\ Owner(i + 1) = Owner(i)
        /\ StepOk(i + 1)
        /\ Pre(i).available > 0
        /\ Post(i) # Pre(i)

\* C10: a Dispute, Resolve or Chargeback whose client differs from the client
\* of the referenced Deposit or Withdrawal fails with ClientMismatch and
\* changes no account.
C10_ClientMismatchRejected ==
    \A i \in Steps :
        (/\ StepRecord(i).record_type \in DisputeKinds
         /\ HasReferenced(i)
         /\ records[Referenced(i)].client # Owner(i))
            => /\ ~StepOk(i)
               /\ log[i].err = "ClientMismatch"
               /\ After(i) = OrInsert(Before(i), Owner(i))

\* C11: a record whose application fails leaves every account of the table
\* as it was before the record (an account created for the record's client
\* is all zero and unlocked): nothing partial is committed.
C11_FailedStepCommitsNothing ==
    \A i \in Steps :
        ~StepOk(i) =>
            /\ \A c \in DOMAIN Before(i) :
                   c \in DOMAIN After(i) /\ After(i)[c] = Before(i)[c]
            /\ \A c \in (DOMAIN After(i)) \ (DOMAIN Before(i)) :
                   After(i)[c] = NewClient(c)

\* C11 witness: a record failed for a client whose stored account holds money.
C11_Witness ==
    \E i \in Steps :
        /\ ~StepOk(i)
        /\ Owner(i) \in DOMAIN Before(i)
        /\ Before(i)[Owner(i)].total > 0
        /\ After(i)[Owner(i)] = Before(i)[Owner(i)]

\* C12: locked is monotonic: an account that is locked before a record is
\* locked after it; an account is unlocked when created, and becomes locked
\* only by a Chargeback for its client.
C12_LockedIsMonotonic ==
    \A i \in Steps : \A c \in DOMAIN After(i) :
        LET was == c \in DOMAIN Before(i) /\ Before(i)[c].locked
        IN  /\ was => After(i)[c].locked
            /\ (After(i)[c].locked /\ ~was)
                   => (StepRecord(i).record_type = "chargeback" /\ Owner(i) = c)

\* C12 witness: a record was applied to an account locked earlier, and the
\* account is still locked.
C12_Witness ==
    \E i \in Steps :
        /\ StepOk(i)
        /\ StepRecord(i).record_type # "chargeback"
        /\ Owner(i) \in DOMAIN Before(i)
        /\ Before(i)[Owner(i)].locked
        /\ After(i)[Owner(i)].locked

\* The client ids named by the rows of the file.
ClientsOf(f) == {f[j].client : j \in DOMAIN f}

\* C13: the final result holds exactly one account per client id that appears
\* in any input event, in ascending client id order; a client whose only
\* events failed appears with zero balances, unlocked.
C13_OneAccountPerClient ==
    (/\ pc = "exited"
     /\ readable
     /\ \A j \in DOMAIN csv_file : Deserializes(csv_file[j]))
        => /\ {output[k].id : k \in DOMAIN output} = ClientsOf(csv_file)
           /\ \A k \in DOMAIN output : \A l \in DOMAIN output :
                  k < l => output[k].id < output[l].id
           /\ \A k \in DOMAIN output :
                  (\A i \in Steps : Owner(i) = output[k].id => ~StepOk(i))
                      => output[k] = NewClient(output[k].id)

\* C14: a Resolve or Chargeback whose referenced tx is found succeeds
\* whatever held is, and leaves held lower by the referenced amount, below
\* zero when held was smaller: nothing is floored at zero.
C14_NoClamping ==
    \A i \in Steps :
        (StepRecord(i).record_type \in {"resolve", "chargeback"} /\ HasReferenced(i))
            => /\ StepOk(i)
               /\ Post(i).held = Pre(i).held - RefAmt(i)

\* C14 witness: a Resolve with no Dispute before it drove held below zero.
C14_Witness ==
    \E i \in Steps :
        /\ StepRecord(i).record_type = "resolve"
        /\ StepOk(i)
        /\ Pre(i).held = 0
        /\ RefAmt(i) > 0
        /\ Post(i).held < 0

\* from_reader has returned the map: the run is past loading.
Loaded ==
    \/ pc = "process_records"
    \/ pc = "exited" /\ error \notin {ErrOpen, ErrRow}

\* The rows of the file that are a Deposit or Withdrawal with tx id t.
MovementRows(t) == {j \in DOMAIN csv_file : IsMovement(csv_file[j]) /\ csv_file[j].tx = t}

FirstMovement(t) == CHOOSE j \in MovementRows(t) : \A k \in MovementRows(t) : j <= k

LastMovement(t) == CHOOSE j \in MovementRows(t) : \A k \in MovementRows(t) : k <= j

\* C15 as stated: an entry is written once: a lookup of t yields the client
\* and amount of the first Deposit or Withdrawal row with tx id t for the
\* rest of the run, also when a later row reuses t.
C15_WriteOnce ==
    Loaded =>
        \A t \in TxIds :
            MovementRows(t) # {} =>
                /\ Tx(t) \in DOMAIN records
                /\ records[Tx(t)].client = csv_file[FirstMovement(t)].client
                /\ records[Tx(t)].amount = csv_file[FirstMovement(t)].amount

\* C15 amended: once the file is loaded, a lookup of t yields, for the rest
\* of the run, the last Deposit or Withdrawal row with tx id t (a later row
\* that reuses t replaces the entry); t has an entry exactly when such a row
\* exists, so Dispute, Resolve and Chargeback rows never add or modify one.
C15_LastWriteWins ==
    Loaded =>
        \A t \in TxIds :
            /\ Tx(t) \in DOMAIN records <=> MovementRows(t) # {}
            /\ MovementRows(t) # {} => records[Tx(t)] = csv_file[LastMovement(t)]

\* C15 witness: a tx id was reused with another client or amount, and a
\* Dispute, Resolve or Chargeback that refers to it has been applied.
C15_Witness ==
    /\ Loaded
    /\ \E t \in TxIds :
           /\ MovementRows(t) # {}
           /\ csv_file[FirstMovement(t)] # csv_file[LastMovement(t)]
           /\ records[Tx(t)] = csv_file[LastMovement(t)]
           /\ \E i \in Steps :
                  /\ StepRecord(i).record_type \in DisputeKinds
                  /\ StepRecord(i).tx = t
                  /\ StepOk(i)

\* C16: Dispute, Resolve and Chargeback rows cannot be referred to: such a
\* record whose tx id no Deposit or Withdrawal row carries fails as not found,
\* and a lookup that succeeds yields a Deposit or a Withdrawal.
C16_OnlyMovementsReferenceable ==
    \A i \in Steps :
        StepRecord(i).record_type \in DisputeKinds =>
            /\ MovementRows(StepRecord(i).tx) = {}
                   => (~StepOk(i)
                       /\ log[i].err \in {ErrDisputed, ErrResolved, ErrChargeback})
            /\ HasReferenced(i) => IsMovement(records[Referenced(i)])

\* C16 witness: a record failed as not found while another Dispute, Resolve
\* or Chargeback row of the file carries the tx id it refers to.
C16_Witness ==
    \E i \in Steps :
        /\ StepRecord(i).record_type \in DisputeKinds
        /\ ~StepOk(i)
        /\ \E j \in DOMAIN csv_file :
               /\ j # rowOf[log[i].id]
               /\ csv_file[j].record_type \in DisputeKinds
               /\ csv_file[j].tx = StepRecord(i).tx

\* C17: process_records applies every Deposit and Withdrawal in ascending tx
\* id order before any Dispute, Resolve or Chargeback, and those in their
\* input order; so the outcome of the run is that of the file with its
\* Deposit and Withdrawal rows moved in front of the other rows.
C17_MovementsFirstThenInputOrder ==
    /\ \A a \in Steps : \A b \in Steps :
           a < b =>
               /\ (IsMovement(StepRecord(a)) /\ IsMovement(StepRecord(b)))
                      => StepRecord(a).tx < StepRecord(b).tx
               /\ IsMovement(StepRecord(b)) => IsMovement(StepRecord(a))
               /\ (~IsMovement(StepRecord(a)) /\ ~IsMovement(StepRecord(b)))
                      => rowOf[log[a].id] < rowOf[log[b].id]
    /\ (pc = "exited" /\ readable)
           => [error |-> error, output |-> output] = ResultOf(MovementsFirst(csv_file))

\* C17 witness: a run ended well in which a Deposit or Withdrawal was applied
\* before a Dispute, Resolve or Chargeback that precedes it in the file, and
\* that one was applied to money the later row brought.
C17_Witness ==
    /\ pc = "exited"
    /\ exit_code = 0
    /\ \E a \in Steps : \E b \in Steps :
           /\ a < b
           /\ rowOf[log[b].id] < rowOf[log[a].id]
           /\ IsMovement(StepRecord(a))
           /\ ~IsMovement(StepRecord(b))
           /\ RefAmt(b) > 0
    /\ MovementsFirst(csv_file) # csv_file

\* C18: a record changes at most the account of its own client: no account
\* is removed, and every other account, the owner of the referenced
\* transaction included, is as before.
C18_OnlyOwnAccountChanges ==
    \A i \in Steps :
        /\ DOMAIN Before(i) \subseteq DOMAIN After(i)
        /\ \A c \in DOMAIN After(i) :
               c # Owner(i) => (c \in DOMAIN Before(i) /\ After(i)[c] = Before(i)[c])

\* C18 witness: a Dispute, Resolve or Chargeback by one client on another
\* client's transaction was applied; it changed the first client's account
\* while the other client's account holds money.
C18_Witness ==
    \E i \in Steps :
        /\ StepRecord(i).record_type \in DisputeKinds
        /\ StepOk(i)
        /\ records[Referenced(i)].client # Owner(i)
        /\ records[Referenced(i)].client \in DOMAIN Before(i)
        /\ Before(i)[records[Referenced(i)].client].total > 0
        /\ Post(i) # Pre(i)

\* C19: in a file of Deposit and Withdrawal rows only (amounts not negative)
\* every account has available >= 0, held = 0 and total = available after
\* every record, and a Withdrawal is applied only when available >= amount.
C19_MovementsKeepBalancesSound ==
    (\A j \in DOMAIN csv_file : IsMovement(csv_file[j]) /\ csv_file[j].amount >= 0)
        => /\ \A c \in DOMAIN clients :
                  /\ clients[c].available >= 0
                  /\ clients[c].held = 0
                  /\ clients[c].total = clients[c].available
           /\ \A i \in Steps :
                  (StepRecord(i).record_type = "withdrawal" /\ StepOk(i))
                      => Pre(i).available >= StepRecord(i).amount

\* C19 witness: a Withdrawal of part of the available money was applied, and
\* another one was then refused for lack of funds.
C19_Witness ==
    /\ \A j \in DOMAIN csv_file : IsMovement(csv_file[j])
    /\ \E i \in Steps :
           /\ StepRecord(i).record_type = "withdrawal"
           /\ StepOk(i)
           /\ StepRecord(i).amount > 0
           /\ Post(i).available > 0
    /\ \E i \in Steps : ~StepOk(i) /\ log[i].err = ErrFunds

====
